---------------------------- MODULE Spec2Model ----------------------------
(***************************************************************************)
(* A model of get-deployment-metrics.py: the page loop of                  *)
(* get_workflow_runs, the per-run classification and accumulation, the     *)
(* per-workflow stat record and the organization rollup.                   *)
(*                                                                         *)
(* Strings that the program inspects character by character (workflow      *)
(* names, glob patterns) are sequences of one-character strings.  A Python *)
(* float that is the quotient of two integers is kept as that quotient;    *)
(* the text format_number makes of it is kept as a number of hundredths    *)
(* and a flag saying whether the text has no decimals.                     *)
(***************************************************************************)
EXTENDS Integers, Sequences, FiniteSets, TLC

(***************************************************************************)
(* Bounds of the model.                                                    *)
(***************************************************************************)
\* Repositories the organization has, workflows a repository has, runs the
\* server serves in all, the largest total count it reports, and the page
\* number from which page numbers are no longer told apart.
MaxRepos == 1
MaxWorkflows == 2
MaxRuns == 2
MaxTotal == 2
MaxPage == 3
\* Run counts up to which every split into successes, failures and others
\* is tried on the rate computation.
MaxRateTotal == 6

NULL == "null"

(***************************************************************************)
(* Text helpers.                                                           *)
(***************************************************************************)
RECURSIVE RemoveSpaces(_)
\* str.replace(" ", "")
RemoveSpaces(s) ==
    IF s = << >> THEN << >>
    ELSE IF Head(s) = " " THEN RemoveSpaces(Tail(s))
         ELSE <<Head(s)>> \o RemoveSpaces(Tail(s))

RECURSIVE fnmatch(_, _)
\* fnmatch.fnmatch on a POSIX host, for patterns made of literal characters,
\* "?" and "*".
fnmatch(name, pat) ==
    IF pat = << >> THEN name = << >>
    ELSE IF Head(pat) = "*"
         THEN \/ fnmatch(name, Tail(pat))
              \/ name # << >> /\ fnmatch(Tail(name), pat)
         ELSE /\ name # << >>
              /\ (Head(pat) = "?" \/ Head(pat) = Head(name))
              /\ fnmatch(Tail(name), Tail(pat))

BranchPattern == <<"B", "r", "a", "n", "c", "h", "*">>

\* The name under which a workflow's stat record is stored.
workflow_summary_name(workflow_name) == RemoveSpaces(workflow_name)

(***************************************************************************)
(* Floating point.  The double nearest to a/b (0 < b, 0 <= a) is above,    *)
(* equal to or below a/b; DoubleErrSign tells which, by long division of   *)
(* a by b to 53 significant bits.                                          *)
(***************************************************************************)
RECURSIVE BitLength(_)
BitLength(q) == IF q = 0 THEN 0 ELSE 1 + BitLength(q \div 2)

RECURSIVE DivideBits(_, _, _, _)
\* k more bits of the quotient, from remainder r; last is the last bit kept.
DivideBits(r, b, k, last) ==
    IF k = 0
    THEN IF r = 0 THEN 0
         ELSE IF 2 * r > b THEN 1
         ELSE IF 2 * r < b THEN -1
         ELSE IF last = 1 THEN 1 ELSE -1
    ELSE DivideBits((2 * r) % b, b, k - 1, (2 * r) \div b)

RECURSIVE SkipZeroBits(_, _)
\* For a/b < 1: drop the zero bits before the first one bit.
SkipZeroBits(r, b) ==
    IF (2 * r) \div b = 1 THEN DivideBits((2 * r) % b, b, 52, 1)
    ELSE SkipZeroBits((2 * r) % b, b)

DoubleErrSign(a, b) ==
    IF a % b = 0 THEN 0
    ELSE IF a \div b > 0
         THEN DivideBits(a % b, b, 53 - BitLength(a \div b), (a \div b) % 2)
         ELSE SkipZeroBits(a % b, b)

\* Rounding a/b itself, every tie upwards, instead of the double nearest to it.
TwoDecimals_HalfUp(a, b) == (200 * a + b) \div (2 * b)

\* "{0:.2f}".format(float_val) in hundredths: the double, correctly rounded
\* to two decimals, ties of the double itself to even.
TwoDecimals(a, b) ==
    IF (200 * a) % b = 0 /\ (100 * a) % b # 0
    THEN LET k == (100 * a) \div b
             e == DoubleErrSign(a, b)
         IN  IF e > 0 THEN k + 1
             ELSE IF e < 0 THEN k
             ELSE IF k % 2 = 0 THEN k ELSE k + 1
    ELSE (200 * a + b) \div (2 * b)

\* format_number applied to the float a/b.
format_number(a, b) ==
    IF a % b = 0
    THEN [whole |-> TRUE, hundredths |-> 100 * (a \div b)]
    ELSE [whole |-> FALSE, hundredths |-> TwoDecimals(a, b)]

\* float() of a text format_number made, in hundredths.
ParseFloat(text) == text.hundredths


(***************************************************************************)
(* Rationals n/d (d > 0) in lowest terms, for the float averages of        *)
(* durations, which the program never rounds.                              *)
(***************************************************************************)
RECURSIVE GCD(_, _)
GCD(a, b) == IF b = 0 THEN a ELSE GCD(b, a % b)

Rat(n, d) ==
    IF n = 0 THEN [num |-> 0, den |-> 1]
    ELSE [num |-> n \div GCD(n, d), den |-> d \div GCD(n, d)]

RatAdd(x, y) == Rat(x.num * y.den + y.num * x.den, x.den * y.den)

RatDiv(x, k) == Rat(x.num, x.den * k)

(***************************************************************************)
(* The data the hosting API can deliver.                                   *)
(***************************************************************************)
DeployProd == <<"D", "e", "p", "l", "o", "y", " ", "P", "r", "o", "d">>
DeployProdNoSpace == <<"D", "e", "p", "l", "o", "y", "P", "r", "o", "d">>
BranchDeploy == <<"B", "r", "a", "n", "c", "h", " ", "D", "e", "p", "l", "o", "y">>
BRanchDeploy == <<"B", " ", "r", "a", "n", "c", "h", " ", "D", "e", "p", "l", "o", "y">>
UnitTests == <<"T", "e", "s", "t", "s">>

WorkflowNames == {DeployProd, DeployProdNoSpace, BranchDeploy, BRanchDeploy, UnitTests}

Patterns == {<<"*", "D", "e", "p", "l", "o", "y", "*">>}

Logins == {"alice"}

Conclusions ==
    {"success", "neutral", "cancelled", "skipped", "action_required",
     "failure", "timed_out", "stale", NULL}

Events == {"push", "workflow_dispatch"}

\* The next k runs the server has: run ids are distinct, and the model
\* numbers the runs in the order the server serves them.
FreshRuns(already, k) == [i \in 1..k |-> already + i]

SeqsUpTo(S, n) == UNION {[1..k -> S] : k \in 0..n}

\* The body of a response whose status is not a success: the API's error
\* object, which has none of the keys the program looks up.
ErrorBody == [message |-> "error"]

\* Run durations in ms.
Durations == {1}

\* The bodies of the timing endpoint.
TimingResponses ==
    {[status |-> "ok", body |-> [run_duration_ms |-> d]] : d \in Durations}
        \cup {[status |-> "ok", body |-> [billable |-> 0]],
              [status |-> "error", body |-> ErrorBody]}

NoRun == [id |-> 0, conclusion |-> NULL, triggering_actor |-> NULL, event |-> NULL]
NoSummary == [printed |-> "nothing"]
EmptyMap == << >>

(***************************************************************************)
(* The state.  args: the command line.  pc: the place in the script.       *)
(* api_call, api_status: the endpoint the last step called and the status  *)
(* it got ("none" when the step called none); the script stores the status *)
(* in gh_status and never reads it.  The other program variables carry     *)
(* the names the script gives them.  A for loop over a list the script     *)
(* reads nowhere else is kept as the items it has yet to visit: repo_data  *)
(* and workflow_data are what is left of the two lists.  run_idx is the    *)
(* position of the loop over workflow_runs.                                *)
(*                                                                         *)
(* History variables, which no action reads to decide what to do: pages    *)
(* (the pages the current get_workflow_runs call received, at most MaxPage *)
(* of them), served (the runs the server has served so far),               *)
(* matched_done / matched_success_sum / matched_zero (the pattern-matched  *)
(* workflows of non-archived repositories seen so far: how many had a      *)
(* fetched run, the sum of their success rates, how many ended with no     *)
(* eligible run) and recorded_name (the name of the workflow each stat     *)
(* record was made from).                                                  *)
(***************************************************************************)
VARIABLES
    include_manual_runs, workflow_pattern,
    pc, api_call, api_status,
    repo_data, repo_name,
    workflow_data, workflow_name,
    runs, total_runs_returned, page_to_get, more_results, total_runs,
    workflow_runs, run_idx, workflow_run,
    total_workflow_runs, workflow_success_count, workflow_fail_count,
    workflow_total_duration, deployers,
    summary_stats,
    workflow_count, overall_success_sum, overall_failure_sum,
    overall_duration_ms_sum, overall_run_count, overall_deployers,
    summary,
    served, pages,
    matched_done, matched_success_sum, matched_zero, recorded_name

argVars == <<include_manual_runs, workflow_pattern>>
apiVars == <<api_call, api_status>>
repoVars == <<repo_data, repo_name>>
workflowVars == <<workflow_data, workflow_name>>
fetchVars == <<runs, total_runs_returned, page_to_get, more_results, total_runs,
               served, pages>>
runVars == <<workflow_runs, run_idx, workflow_run>>
countVars == <<total_workflow_runs, workflow_success_count, workflow_fail_count,
               workflow_total_duration, deployers>>
statVars == <<summary_stats, recorded_name>>
rollupVars == <<workflow_count, overall_success_sum, overall_failure_sum,
                overall_duration_ms_sum, overall_run_count, overall_deployers>>
historyVars == <<matched_done, matched_success_sum, matched_zero>>

vars == <<argVars, pc, apiVars, repoVars, workflowVars, fetchVars, runVars,
          countVars, statVars, rollupVars, summary, historyVars>>

\* The state at line 138, before the first API call.
Init ==
    /\ include_manual_runs \in BOOLEAN
    /\ workflow_pattern \in Patterns
    /\ pc = "list_repos"
    /\ api_call = "none" /\ api_status = "none"
    /\ repo_data = << >> /\ repo_name = 0
    /\ workflow_data = << >> /\ workflow_name = << >>
    /\ runs = << >> /\ total_runs_returned = 0 /\ page_to_get = 1
    /\ more_results = FALSE /\ total_runs = 0 /\ served = 0 /\ pages = << >>
    /\ workflow_runs = << >> /\ run_idx = 0 /\ workflow_run = NoRun
    /\ total_workflow_runs = 0 /\ workflow_success_count = 0
    /\ workflow_fail_count = 0 /\ workflow_total_duration = 0
    /\ deployers = EmptyMap
    /\ summary_stats = EmptyMap /\ recorded_name = EmptyMap
    /\ workflow_count = 0 /\ overall_success_sum = 0 /\ overall_failure_sum = 0
    /\ overall_duration_ms_sum = Rat(0, 1) /\ overall_run_count = 0
    /\ overall_deployers = EmptyMap
    /\ summary = NoSummary
    /\ matched_done = 0 /\ matched_success_sum = 0 /\ matched_zero = 0

\* A call of the API client: the endpoint and the status it returned.
ApiCall(endpoint, status) ==
    /\ api_call' = endpoint
    /\ api_status' = status

NoApiCall ==
    /\ api_call' = "none"
    /\ api_status' = "none"

(***************************************************************************)
(* Line 138: list the organization's repositories.  On a non-success       *)
(* status the body is the error object; the for loop of line 140 then      *)
(* iterates its keys and repo["name"] raises TypeError.                    *)
(***************************************************************************)
ListRepos ==
    /\ pc = "list_repos"
    /\ \E status \in {"ok", "error"} :
         /\ ApiCall("repos", status)
         /\ IF status = "ok"
            THEN /\ \E n \in 0..MaxRepos : \E archived \in [1..n -> BOOLEAN] :
                       repo_data' = [i \in 1..n |->
                                        [name |-> i, archived |-> archived[i]]]
                 /\ pc' = "repo_loop"
            ELSE /\ repo_data' = ErrorBody
                 /\ pc' = "crashed"
    /\ UNCHANGED <<argVars, repo_name, workflowVars, fetchVars, runVars, countVars,
                   statVars, rollupVars, summary, historyVars>>

(***************************************************************************)
(* Lines 140-148: the next repository; an archived one is skipped.         *)
(***************************************************************************)
NextRepo ==
    /\ pc = "repo_loop"
    /\ NoApiCall
    /\ IF repo_data = << >>
       THEN /\ pc' = "rollup"
            /\ UNCHANGED <<repo_data, repo_name>>
       ELSE /\ repo_data' = Tail(repo_data)
            /\ repo_name' = Head(repo_data).name
            /\ pc' = IF Head(repo_data).archived
                     THEN "repo_loop" ELSE "list_workflows"
    /\ UNCHANGED <<argVars, workflowVars, fetchVars, runVars, countVars,
                   statVars, rollupVars, summary, historyVars>>

(***************************************************************************)
(* Lines 152-156: list the repository's workflows.  On a non-success       *)
(* status workflow_data["workflows"] raises KeyError.                      *)
(***************************************************************************)
ListWorkflows ==
    /\ pc = "list_workflows"
    /\ \E status \in {"ok", "error"} :
         /\ ApiCall("workflows", status)
         /\ IF status = "ok"
            THEN /\ workflow_data' \in SeqsUpTo(WorkflowNames, MaxWorkflows)
                 /\ pc' = "workflow_loop"
            ELSE /\ workflow_data' = ErrorBody
                 /\ pc' = "crashed"
    /\ UNCHANGED <<argVars, repoVars, workflow_name, fetchVars, runVars, countVars,
                   statVars, rollupVars, summary, historyVars>>

(***************************************************************************)
(* Lines 156-192: the next workflow.  Its counters are reset; when its     *)
(* name matches the pattern, get_workflow_runs is entered (lines 33-36).   *)
(***************************************************************************)
NextWorkflow ==
    /\ pc = "workflow_loop"
    /\ NoApiCall
    /\ IF workflow_data = << >>
       THEN /\ pc' = "repo_loop"
            /\ UNCHANGED <<workflow_data, workflow_name, countVars, workflow_runs,
                           runs, total_runs_returned, page_to_get, more_results,
                           pages>>
       ELSE /\ workflow_data' = Tail(workflow_data)
            /\ workflow_name' = Head(workflow_data)
            /\ deployers' = EmptyMap
            /\ workflow_runs' = << >>
            /\ workflow_success_count' = 0
            /\ workflow_fail_count' = 0
            /\ workflow_total_duration' = 0
            /\ UNCHANGED total_workflow_runs
            /\ IF fnmatch(Head(workflow_data), workflow_pattern)
               THEN /\ runs' = << >>
                    /\ total_runs_returned' = 0
                    /\ page_to_get' = 1
                    /\ more_results' = TRUE
                    /\ pages' = << >>
                    /\ pc' = "get_workflow_runs"
               ELSE /\ pc' = "workflow_loop"
                    /\ UNCHANGED <<runs, total_runs_returned, page_to_get,
                                   more_results, pages>>
    /\ UNCHANGED <<argVars, repoVars, total_runs, served, run_idx,
                   workflow_run, statVars, rollupVars, summary, historyVars>>

(***************************************************************************)
(* get_workflow_runs, lines 38-65: one turn of the while loop.  The server *)
(* answers with any page of runs and any total count (MaxRuns bounds the   *)
(* runs it serves in all, MaxTotal the total count it reports);            *)
(* on a non-success status workflow_runs["workflow_runs"] raises KeyError. *)
(* Page numbers from MaxPage on are all kept as MaxPage.                   *)
(***************************************************************************)
Min(a, b) == IF a < b THEN a ELSE b

\* Asking for another page until the two numbers are equal.
MorePages_NotEqual(returned, total) == returned # total

\* Line 58: whether another page is asked for.
MorePages(returned, total) == returned < total

FetchPage ==
    /\ pc = "get_workflow_runs"
    /\ more_results
    /\ \E status \in {"ok", "error"} :
         /\ ApiCall("runs", status)
         /\ IF status = "ok"
            THEN \E page \in {FreshRuns(served, k) : k \in 0..(MaxRuns - served)},
                    total \in 0..MaxTotal :
                   /\ runs' = runs \o page
                   /\ total_runs' = total
                   /\ total_runs_returned' = total_runs_returned + Len(page)
                   /\ served' = served + Len(page)
                   /\ pages' = IF Len(pages) < MaxPage
                               THEN Append(pages, [number |-> page_to_get,
                                                   runs |-> page,
                                                   total_count |-> total])
                               ELSE pages
                   /\ IF MorePages(total_runs_returned + Len(page), total)
                      THEN /\ page_to_get' = Min(page_to_get + 1, MaxPage)
                           /\ UNCHANGED more_results
                      ELSE /\ more_results' = FALSE
                           /\ UNCHANGED page_to_get
                   /\ pc' = "get_workflow_runs"
            ELSE /\ pc' = "crashed"
                 /\ UNCHANGED <<runs, total_runs, total_runs_returned, served,
                                pages, page_to_get, more_results>>
    /\ UNCHANGED <<argVars, repoVars, workflowVars, runVars, countVars, statVars,
                   rollupVars, summary, historyVars>>

(***************************************************************************)
(* Lines 67 and 190-210: get_workflow_runs returns, and its local          *)
(* variables are gone; a workflow with no fetched run is passed over.      *)
(***************************************************************************)
WithKey(map, key, value) == IF key \in DOMAIN map THEN map ELSE (key :> value) @@ map

ReturnRuns ==
    /\ pc = "get_workflow_runs"
    /\ ~more_results
    /\ NoApiCall
    /\ workflow_runs' = runs
    /\ total_workflow_runs' = Len(runs)
    /\ run_idx' = 0
    /\ IF Len(runs) > 0
       THEN /\ summary_stats' = WithKey(summary_stats, repo_name, EmptyMap)
            /\ recorded_name' = WithKey(recorded_name, repo_name, EmptyMap)
            /\ pc' = "run_loop"
            /\ UNCHANGED matched_zero
       ELSE /\ pc' = "workflow_loop"
            /\ matched_zero' = matched_zero + 1
            /\ UNCHANGED statVars
    /\ runs' = << >> /\ total_runs_returned' = 0 /\ page_to_get' = 1
    /\ more_results' = FALSE /\ total_runs' = 0 /\ pages' = << >>
    /\ UNCHANGED <<argVars, repoVars, workflowVars, served, workflow_run,
                   workflow_success_count, workflow_fail_count,
                   workflow_total_duration, deployers, rollupVars, summary,
                   matched_done, matched_success_sum>>

(***************************************************************************)
(* Lines 212-280: one run of the workflow.  The fields of the run are read *)
(* here and nowhere else, so this is where their values are drawn.         *)
(***************************************************************************)
\* The success states with "skipped" forgotten.
workflow_success_states_NoSkipped ==
    {"success", "neutral", "cancelled", "action_required"}

workflow_success_states ==
    {"success", "neutral", "cancelled", "skipped", "action_required"}

workflow_failure_states == {"failure", "timed_out"}

\* Lines 217-220.
ActorOf(run) ==
    IF run.triggering_actor # NULL THEN run.triggering_actor
    ELSE "User is no longer in the org"

\* Leaving every manual run out, whatever include-manual-runs says.
IsExcluded_AnyManual(run, include) == run.event = "workflow_dispatch"

\* Lines 229-243: the run is left out of the stats.
IsExcluded(run, include) == run.event = "workflow_dispatch" /\ ~include

\* Lines 269-272.
JobDuration(body) ==
    IF "run_duration_ms" \in DOMAIN body THEN body.run_duration_ms ELSE 0

\* Lines 225-226.
InitActor(map, actor) == WithKey(map, actor, 0)

\* Setting the count instead of adding to it.
CountDeploy_SetOne(map, actor) == [map EXCEPT ![actor] = 1]

\* Line 258.
CountDeploy(map, actor) == [map EXCEPT ![actor] = @ + 1]

ProcessRun ==
    /\ pc = "run_loop"
    /\ run_idx < Len(workflow_runs)
    /\ \E conclusion \in Conclusions, who \in Logins \cup {NULL}, event \in Events,
          timing \in TimingResponses :
         LET run == [id |-> workflow_runs[run_idx + 1], conclusion |-> conclusion,
                     triggering_actor |-> who, event |-> event]
             actor == ActorOf(run)
         IN  /\ workflow_run' = run
             /\ IF IsExcluded(run, include_manual_runs)
                THEN /\ deployers' = InitActor(deployers, actor)
                     /\ total_workflow_runs' = total_workflow_runs - 1
                     /\ NoApiCall
                     /\ UNCHANGED <<workflow_success_count, workflow_fail_count,
                                    workflow_total_duration>>
                ELSE /\ workflow_success_count' =
                            IF conclusion \in workflow_success_states
                            THEN workflow_success_count + 1
                            ELSE workflow_success_count
                     /\ workflow_fail_count' =
                            IF /\ conclusion \notin workflow_success_states
                               /\ conclusion \in workflow_failure_states
                            THEN workflow_fail_count + 1
                            ELSE workflow_fail_count
                     /\ deployers' = CountDeploy(InitActor(deployers, actor), actor)
                     /\ ApiCall("timing", timing.status)
                     /\ workflow_total_duration' =
                            workflow_total_duration + JobDuration(timing.body)
                     /\ UNCHANGED total_workflow_runs
    /\ run_idx' = run_idx + 1
    /\ pc' = "run_loop"
    /\ UNCHANGED <<argVars, repoVars, workflowVars, fetchVars, workflow_runs,
                   statVars, rollupVars, summary, historyVars>>

(***************************************************************************)
(* Lines 282-309: the workflow's stat record is made and stored under the  *)
(* repository and the workflow's name without its spaces.  The list of     *)
(* runs and the loop variable of the run loop are not read again before    *)
(* they are assigned; they are cleared here.                               *)
(***************************************************************************)
\* The rate left at 100, the value line 162 gives it.
ZeroRate_Initial == [whole |-> TRUE, hundredths |-> 10000]

\* Lines 285-286: the int 0 (float() and print treat it as the text "0").
ZeroRate == [whole |-> TRUE, hundredths |-> 0]

\* Lines 284-295.
RateOf(count, total) ==
    IF total = 0 THEN ZeroRate ELSE format_number(100 * count, total)

\* Lines 284-298.
AvgDuration(duration, total) ==
    IF total = 0 THEN Rat(0, 1) ELSE Rat(duration, total)

MakeStat ==
    [total_runs |-> total_workflow_runs,
     success_count |-> workflow_success_count,
     fail_count |-> workflow_fail_count,
     success_rate |-> RateOf(workflow_success_count, total_workflow_runs),
     fail_rate |-> RateOf(workflow_fail_count, total_workflow_runs),
     avg_duration_ms |-> AvgDuration(workflow_total_duration, total_workflow_runs),
     actors |-> deployers]

\* Line 309.
StatKey(name) == workflow_summary_name(name)

StoreStat ==
    /\ pc = "run_loop"
    /\ run_idx = Len(workflow_runs)
    /\ NoApiCall
    /\ summary_stats' =
           [summary_stats EXCEPT ![repo_name] = (StatKey(workflow_name) :> MakeStat) @@ @]
    /\ recorded_name' =
           [recorded_name EXCEPT ![repo_name] = (StatKey(workflow_name) :> workflow_name) @@ @]
    /\ matched_done' = matched_done + 1
    /\ matched_success_sum' = matched_success_sum + ParseFloat(MakeStat.success_rate)
    /\ matched_zero' = IF total_workflow_runs = 0 THEN matched_zero + 1 ELSE matched_zero
    /\ workflow_runs' = << >> /\ run_idx' = 0 /\ workflow_run' = NoRun
    /\ pc' = "workflow_loop"
    /\ UNCHANGED <<argVars, repoVars, workflowVars, fetchVars, countVars,
                   rollupVars, summary>>

(***************************************************************************)
(* Lines 330-366: the rollup over every stored stat record.                *)
(***************************************************************************)
Entries(stats) == UNION {{<<r, k>> : k \in DOMAIN stats[r]} : r \in DOMAIN stats}

RECURSIVE SumInt(_, _)
SumInt(S, f) ==
    IF S = {} THEN 0
    ELSE LET e == CHOOSE x \in S : TRUE IN f[e] + SumInt(S \ {e}, f)

RECURSIVE SumRat(_, _)
SumRat(S, f) ==
    IF S = {} THEN Rat(0, 1)
    ELSE LET e == CHOOSE x \in S : TRUE IN RatAdd(f[e], SumRat(S \ {e}, f))

StatAt(stats, e) == stats[e[1]][e[2]]

\* Line 353: the record is left out of the organization's deployers.
IsBranchDeploy(stat_workflow) == fnmatch(stat_workflow, BranchPattern)

\* Lines 352-366.
RollupDeployers(stats) ==
    LET counted == {e \in Entries(stats) : ~IsBranchDeploy(e[2])}
        users == UNION {DOMAIN StatAt(stats, e).actors : e \in counted}
    IN  [u \in users |->
            SumInt({e \in counted : u \in DOMAIN StatAt(stats, e).actors},
                   [e \in counted |->
                       IF u \in DOMAIN StatAt(stats, e).actors
                       THEN StatAt(stats, e).actors[u] ELSE 0])]

Rollup ==
    /\ pc = "rollup"
    /\ NoApiCall
    /\ LET E == Entries(summary_stats)
       IN  /\ workflow_count' = Cardinality(E)
           /\ overall_success_sum' =
                  SumInt(E, [e \in E |-> ParseFloat(StatAt(summary_stats, e).success_rate)])
           /\ overall_failure_sum' =
                  SumInt(E, [e \in E |-> ParseFloat(StatAt(summary_stats, e).fail_rate)])
           /\ overall_duration_ms_sum' =
                  SumRat(E, [e \in E |-> StatAt(summary_stats, e).avg_duration_ms])
           /\ overall_run_count' =
                  SumInt(E, [e \in E |-> StatAt(summary_stats, e).total_runs])
    /\ overall_deployers' = RollupDeployers(summary_stats)
    /\ pc' = "summary"
    /\ UNCHANGED <<argVars, repoVars, workflowVars, fetchVars, runVars, countVars,
                   statVars, summary, historyVars>>

(***************************************************************************)
(* Lines 368-402: the summary is printed.  The sums of rates are sums of   *)
(* hundredths; the float error of adding them is not modelled.             *)
(***************************************************************************)
PrintSummary ==
    /\ pc = "summary"
    /\ NoApiCall
    /\ summary' =
           IF workflow_count # 0
           THEN [printed |-> "averages",
                 total_runs |-> overall_run_count,
                 average_success_rate |->
                     format_number(overall_success_sum, 100 * workflow_count),
                 average_failure_rate |->
                     format_number(overall_failure_sum, 100 * workflow_count),
                 average_duration_ms |->
                     RatDiv(overall_duration_ms_sum, workflow_count),
                 deployers |-> overall_deployers]
           ELSE [printed |-> "no workflows found"]
    /\ pc' = "done"
    /\ UNCHANGED <<argVars, repoVars, workflowVars, fetchVars, runVars, countVars,
                   statVars, rollupVars, historyVars>>

Next ==
    \/ ListRepos
    \/ NextRepo
    \/ ListWorkflows
    \/ NextWorkflow
    \/ FetchPage
    \/ ReturnRuns
    \/ ProcessRun
    \/ StoreStat
    \/ Rollup
    \/ PrintSummary

Spec == Init /\ [][Next]_vars

\* The script is one sequential process: while it has a step to take, it
\* takes one.
FairSpec == Spec /\ WF_vars(Next)

(***************************************************************************)
(* The rate computation on its own.  The run loop of a workflow has ended  *)
(* (line 282) with total_workflow_runs eligible runs, of which             *)
(* workflow_success_count succeeded and workflow_fail_count failed, all    *)
(* triggered by one actor; the list of runs itself, which the code from    *)
(* there on does not read, is left out.  Every split of up to MaxRateTotal *)
(* runs is tried, and, with at most one run that is neither a success nor  *)
(* a failure, the run counts of RateTotals.                                *)
(***************************************************************************)
RateTotals == {32, 4000, 10001}

RateInputs ==
    UNION {{[total |-> n, success |-> g, fail |-> f] : g \in 0..n, f \in 0..n} :
              n \in 0..MaxRateTotal}
    \cup UNION {{[total |-> n, success |-> g, fail |-> n - g - u] :
                    g \in 0..n, u \in 0..1} : n \in RateTotals}

InitRate ==
    /\ include_manual_runs = FALSE
    /\ workflow_pattern \in Patterns
    /\ pc = "run_loop"
    /\ api_call = "none" /\ api_status = "none"
    /\ repo_data = << >> /\ repo_name = 1
    /\ workflow_data = << >> /\ workflow_name = DeployProd
    /\ runs = << >> /\ total_runs_returned = 0 /\ page_to_get = 1
    /\ more_results = FALSE /\ total_runs = 0 /\ served = 0 /\ pages = << >>
    /\ workflow_runs = << >> /\ run_idx = 0 /\ workflow_run = NoRun
    /\ \E in \in RateInputs :
         /\ in.fail >= 0
         /\ in.success + in.fail <= in.total
         /\ total_workflow_runs = in.total
         /\ workflow_success_count = in.success
         /\ workflow_fail_count = in.fail
         /\ deployers = IF in.total = 0 THEN EmptyMap ELSE ("alice" :> in.total)
    /\ workflow_total_duration = 0
    /\ summary_stats = (1 :> EmptyMap) /\ recorded_name = (1 :> EmptyMap)
    /\ workflow_count = 0 /\ overall_success_sum = 0 /\ overall_failure_sum = 0
    /\ overall_duration_ms_sum = Rat(0, 1) /\ overall_run_count = 0
    /\ overall_deployers = EmptyMap
    /\ summary = NoSummary
    /\ matched_done = 0 /\ matched_success_sum = 0 /\ matched_zero = 0

NextRate ==
    \/ StoreStat
    \/ NextWorkflow
    \/ NextRepo
    \/ Rollup
    \/ PrintSummary

SpecRate == InitRate /\ [][NextRate]_vars

(***************************************************************************)
(* Vocabulary of the properties.                                           *)
(***************************************************************************)
\* A step of the run loop: one more run of workflow_runs has been iterated.
RunStep == pc = "run_loop" /\ run_idx' = run_idx + 1

\* The count a mapping gives an actor, 0 for an actor it does not hold.
Count(map, actor) == IF actor \in DOMAIN map THEN map[actor] ELSE 0

SumCounts(map) == SumInt(DOMAIN map, map)

Actors == Logins \cup {"User is no longer in the org"}

\* The key a run's deploy is counted under.
DeployKey(run) ==
    IF run.triggering_actor = NULL THEN "User is no longer in the org"
    ELSE run.triggering_actor

SuccessSet == {"success", "neutral", "cancelled", "skipped", "action_required"}
FailureSet == {"failure", "timed_out"}

Stats == {StatAt(summary_stats, e) : e \in Entries(summary_stats)}

(***************************************************************************)
(* C1.  A workflow_dispatch run iterated while include-manual-runs is      *)
(* unset takes one off the workflow's total run count and leaves the       *)
(* success count, the failure count, the accumulated duration and its      *)
(* actor's deploy count as they were, and no timing lookup is made for it. *)
(* With include-manual-runs set it is counted like any other run: the      *)
(* total stays, its actor's deploy count goes up by one, the timing lookup *)
(* is made, and its conclusion is classified.                              *)
(***************************************************************************)
C1_ManualRunExcluded ==
    [][(RunStep /\ workflow_run'.event = "workflow_dispatch") =>
         LET who == DeployKey(workflow_run')
             c == workflow_run'.conclusion
         IN  /\ workflow_run'.id = workflow_runs[run_idx + 1]
             /\ IF ~include_manual_runs
                THEN /\ total_workflow_runs' = total_workflow_runs - 1
                     /\ workflow_success_count' = workflow_success_count
                     /\ workflow_fail_count' = workflow_fail_count
                     /\ workflow_total_duration' = workflow_total_duration
                     /\ Count(deployers', who) = Count(deployers, who)
                     /\ api_call' = "none"
                ELSE /\ total_workflow_runs' = total_workflow_runs
                     /\ Count(deployers', who) = Count(deployers, who) + 1
                     /\ api_call' = "timing"
                     /\ workflow_success_count' - workflow_success_count =
                            (IF c \in SuccessSet THEN 1 ELSE 0)
                     /\ workflow_fail_count' - workflow_fail_count =
                            (IF c \in FailureSet THEN 1 ELSE 0)]_vars

\* Two runs fetched: the first counted as a success, the second a manual
\* run left out of the stats.
C1_Witness ==
    /\ pc = "run_loop"
    /\ ~include_manual_runs
    /\ run_idx = 2
    /\ workflow_run.event = "workflow_dispatch"
    /\ workflow_run.id = workflow_runs[2]
    /\ total_workflow_runs = 1
    /\ workflow_success_count = 1
    /\ api_call = "none"

(***************************************************************************)
(* C2.  A run that is not left out adds one to exactly the success count   *)
(* when its conclusion is success, neutral, cancelled, skipped or          *)
(* action_required, one to exactly the failure count when it is failure or *)
(* timed_out, and nothing to either for any other conclusion (null         *)
(* included); in each case it stays in the total run count and its timing  *)
(* is looked up and accumulated.  In every stat record                     *)
(* success_count + fail_count <= total_runs.                               *)
(***************************************************************************)
C2_Classification ==
    /\ [][(/\ RunStep
           /\ ~(workflow_run'.event = "workflow_dispatch" /\ ~include_manual_runs)) =>
            LET c == workflow_run'.conclusion
            IN  /\ c \in SuccessSet =>
                     /\ workflow_success_count' = workflow_success_count + 1
                     /\ workflow_fail_count' = workflow_fail_count
                /\ c \in FailureSet =>
                     /\ workflow_fail_count' = workflow_fail_count + 1
                     /\ workflow_success_count' = workflow_success_count
                /\ c \notin SuccessSet \cup FailureSet =>
                     /\ workflow_success_count' = workflow_success_count
                     /\ workflow_fail_count' = workflow_fail_count
                /\ total_workflow_runs' = total_workflow_runs
                /\ api_call' = "timing"
                /\ workflow_total_duration' >= workflow_total_duration]_vars
    /\ [](\A stat \in Stats : stat.success_count + stat.fail_count <= stat.total_runs)

\* Two runs counted, the first a success, the second with a null conclusion:
\* it is in the total and in neither count.
C2_Witness ==
    /\ pc = "run_loop"
    /\ run_idx = 2
    /\ workflow_run.conclusion = NULL
    /\ workflow_run.event = "push"
    /\ total_workflow_runs = 2
    /\ workflow_success_count = 1
    /\ workflow_fail_count = 0
    /\ api_call = "timing"

(***************************************************************************)
(* C3, as it stands.  In every stat record the success rate and the        *)
(* failure rate as stored add up to at most 100, and to 100 only when      *)
(* every run that was not left out is a success or a failure.              *)
(***************************************************************************)
RateSum(stat) == ParseFloat(stat.success_rate) + ParseFloat(stat.fail_rate)

C3_RatesAtMost100 ==
    \A stat \in Stats :
        /\ RateSum(stat) <= 10000
        /\ RateSum(stat) = 10000 =>
               stat.success_count + stat.fail_count = stat.total_runs

(***************************************************************************)
(* C3, amended.  In every stat record the two stored rates add up to at    *)
(* most 100.01.  They add up to more than 100 only when every run is a     *)
(* success or a failure and total_runs is a multiple of 4000 (both rates   *)
(* then end in a third decimal 5 and both are rounded up), and to 100 or   *)
(* more with a run that is neither only when total_runs is above 10000.    *)
(***************************************************************************)
C3_RatesRounded ==
    \A stat \in Stats :
        /\ RateSum(stat) <= 10001
        /\ RateSum(stat) > 10000 =>
               /\ stat.success_count + stat.fail_count = stat.total_runs
               /\ stat.total_runs % 4000 = 0
        /\ (/\ RateSum(stat) >= 10000
            /\ stat.success_count + stat.fail_count < stat.total_runs) =>
               stat.total_runs > 10000

\* 9 successes and 3991 failures of 4000 runs: "0.23" and "99.78".
C3_Witness ==
    \E stat \in Stats :
        /\ stat.total_runs = 4000
        /\ stat.success_count = 9
        /\ stat.fail_count = 3991
        /\ stat.success_rate = [whole |-> FALSE, hundredths |-> 23]
        /\ stat.fail_rate = [whole |-> FALSE, hundredths |-> 9978]

(***************************************************************************)
(* C4, as it stands.  get_workflow_runs returns exactly when the runs      *)
(* received so far are as many as the total count the server reported, so  *)
(* that what it returns is as long as the total count reported with the    *)
(* last page.                                                              *)
(***************************************************************************)
Returning == pc = "get_workflow_runs" /\ ~more_results

C4_ReturnsAtTotal == Returning => Len(runs) = total_runs

(***************************************************************************)
(* C4, amended.  get_workflow_runs asks for the pages 1, 2, 3, ... in that *)
(* order, none skipped and none asked for twice, appends each page's runs  *)
(* in the order received, and returns with the first page with which the   *)
(* runs received so far are at least as many as the total count reported   *)
(* with that page: what it returns is pages 1..k put end to end, at least  *)
(* as long as the total count reported with page k.                        *)
(***************************************************************************)
RECURSIVE Concat(_)
Concat(ps) == IF ps = << >> THEN << >> ELSE Head(ps).runs \o Concat(Tail(ps))

Received(k) == Len(Concat(SubSeq(pages, 1, k)))

C4_PagesInOrder ==
    pc = "get_workflow_runs" =>
        /\ \A i \in 1..Len(pages) : pages[i].number = i
        /\ Len(pages) < MaxPage =>
               /\ runs = Concat(pages)
               /\ total_runs_returned = Len(runs)
               /\ \A i \in 1..(Len(pages) - 1) : Received(i) < pages[i].total_count
               /\ more_results =>
                      /\ page_to_get = Len(pages) + 1
                      /\ pages # << >> => Received(Len(pages)) < total_runs
               /\ ~more_results =>
                      /\ pages # << >>
                      /\ page_to_get = Len(pages)
                      /\ total_runs = pages[Len(pages)].total_count
                      /\ Len(runs) >= total_runs

\* Two pages of one run each; the second came with a total count of 1.
C4_Witness ==
    /\ Returning
    /\ Len(pages) = 2
    /\ pages[1].runs = <<1>>
    /\ pages[2].runs = <<2>>
    /\ runs = <<1, 2>>
    /\ total_runs = 1

(***************************************************************************)
(* C5.  The summary's average success rate is the sum of the success rates *)
(* of every pattern-matched workflow of a non-archived repository that had *)
(* a fetched run, divided by the number of those workflows: each of them   *)
(* counts once, whatever its name.                                         *)
(***************************************************************************)
C5_UnweightedMean ==
    pc = "done" =>
        IF matched_done = 0
        THEN summary.printed = "no workflows found"
        ELSE /\ summary.printed = "averages"
             /\ workflow_count = matched_done
             /\ overall_success_sum = matched_success_sum
             /\ summary.average_success_rate =
                    format_number(matched_success_sum, 100 * matched_done)

(***************************************************************************)
(* C6.  For every actor the organization-wide deployer count is the sum of *)
(* the actor's deploy counts over exactly the recorded workflows whose     *)
(* name does not match Branch*.                                            *)
(***************************************************************************)
NamedBranch(e) == fnmatch(recorded_name[e[1]][e[2]], BranchPattern)

C6_DeployersByName ==
    pc \in {"summary", "done"} =>
        \A who \in Actors :
            Count(overall_deployers, who) =
                LET counted == {e \in Entries(summary_stats) : ~NamedBranch(e)}
                IN  SumInt(counted,
                           [e \in counted |-> Count(StatAt(summary_stats, e).actors, who)])

(***************************************************************************)
(* C7, as it stands.  Whenever the program is done with a pattern-matched  *)
(* workflow that has no eligible run, it has stored a stat record for it,  *)
(* with total_runs 0 and both rates and the average duration 0.            *)
(***************************************************************************)
ZeroStat(stat) ==
    /\ stat.total_runs = 0
    /\ stat.success_rate = [whole |-> TRUE, hundredths |-> 0]
    /\ stat.fail_rate = [whole |-> TRUE, hundredths |-> 0]
    /\ stat.avg_duration_ms = [num |-> 0, den |-> 1]

StoredZeroStat ==
    /\ repo_name \in DOMAIN summary_stats'
    /\ RemoveSpaces(workflow_name) \in DOMAIN summary_stats'[repo_name]
    /\ ZeroStat(summary_stats'[repo_name][RemoveSpaces(workflow_name)])

C8_FailurePropagates == api_status = "error" => pc = "crashed"

(***************************************************************************)
(* C9.  get_workflow_runs always returns (or fails), whatever total counts *)
(* and pages the server answers with.                                      *)
(***************************************************************************)
C9_FetchTerminates ==
    (pc = "get_workflow_runs" /\ more_results) ~>
        (pc # "get_workflow_runs" \/ ~more_results)

(***************************************************************************)
(* C10, as it stands.  In every stat record the actors' deploy counts add  *)
(* up to total_runs, and only actors with a run that was not left out are  *)
(* in the mapping.                                                         *)
(***************************************************************************)
C10_OnlyCountedActors ==
    \A stat \in Stats :
        /\ SumCounts(stat.actors) = stat.total_runs
        /\ \A who \in DOMAIN stat.actors : stat.actors[who] >= 1

(***************************************************************************)
(* C10, amended.  Each run that is not left out adds one to the deploy     *)
(* count of its triggering actor (of "User is no longer in the org" when   *)
(* it has none) whatever its conclusion, and changes no other actor's      *)
(* count; a run that is left out changes no count.  So in every stat       *)
(* record the counts add up to total_runs.  The mapping holds every actor  *)
(* who triggered a fetched run of the workflow, with the count 0 for one   *)
(* whose runs were all left out.                                           *)
(***************************************************************************)
C10_ActorCounts ==
    /\ [][RunStep =>
            LET who == DeployKey(workflow_run')
                counted == ~(/\ workflow_run'.event = "workflow_dispatch"
                             /\ ~include_manual_runs)
            IN  /\ who \in DOMAIN deployers'
                /\ DOMAIN deployers' = DOMAIN deployers \cup {who}
                /\ Count(deployers', who) =
                       Count(deployers, who) + (IF counted THEN 1 ELSE 0)
                /\ \A other \in Actors \ {who} :
                       Count(deployers', other) = Count(deployers, other)]_vars
    /\ [](pc = "run_loop" =>
              SumCounts(deployers) =
                  total_workflow_runs - (Len(workflow_runs) - run_idx))
    /\ [](\A stat \in Stats : SumCounts(stat.actors) = stat.total_runs)

\* A record of one counted run, triggered by nobody still in the
\* organization, next to a manual run of alice's that was left out.
C10_Witness ==
    \E stat \in Stats :
        /\ stat.total_runs = 1
        /\ DOMAIN stat.actors = {"alice", "User is no longer in the org"}
        /\ stat.actors["alice"] = 0
        /\ stat.actors["User is no longer in the org"] = 1
        /\ stat.fail_count = 1

=============================================================================
